---- MODULE Spec2Model ----
(***************************************************************************)
(* A model of gzip_static (src/src/gzip_static/__init__.py): the           *)
(* idempotent production of '.gz' companions for the static files of a     *)
(* directory tree, and the removal of orphaned companions.                 *)
(*                                                                         *)
(* Strings are sequences of one-character strings, so that rfind, endswith *)
(* and slicing are computed as Python computes them.  A file's content is  *)
(* a sequence of tokens <<tag, b, n>>:                                     *)
(*    <<"raw", b, n>>   n bytes of value b (a plain run of bytes)          *)
(*    <<"hdr", 0, 0>>   the header of a gzip member                        *)
(*    <<"dfl", b, n>>   the deflate coding of n bytes of value b           *)
(*    <<"eos", 0, 0>>   the end of the deflate stream of a member          *)
(*    <<"trl", c, s>>   the trailer of a member: CRC c and input size s    *)
(* Runs keep st_size exact for files around ZOPFLI_MAXIMUM_SIZE.           *)
(***************************************************************************)
EXTENDS Integers, Sequences, FiniteSets, TLC

(***************************************************************************)
(* Bounds of the model.                                                    *)
(***************************************************************************)
\* the number of files (not directories) in the initial tree
MaxFiles == 3
\* the number of successive gzip_static runs on the tree
MaxRuns == 2

(***************************************************************************)
(* Module constants of gzip_static.                                        *)
(***************************************************************************)
COMPRESSED == 0
RECOMPRESSED == 1
SKIPPED == 2
DELETED == 3
AVAILABLE_COMPRESSION_LEVELS == {6, 9, 11}
ZOPFLI_MAXIMUM_SIZE == 50 * 1024 * 1024

(***************************************************************************)
(* Python string operations on sequences of characters.                    *)
(***************************************************************************)
\* str.endswith
endswith(s, suffix) ==
    /\ Len(s) >= Len(suffix)
    /\ SubSeq(s, Len(s) - Len(suffix) + 1, Len(s)) = suffix

\* the 0-based index of the last occurrence of c among the first i
\* characters of s, -1 when there is none
RECURSIVE RFindFrom(_, _, _)
RFindFrom(s, c, i) ==
    IF i = 0 THEN -1
    ELSE IF s[i] = c THEN i - 1
    ELSE RFindFrom(s, c, i - 1)

\* str.rfind for a one-character needle: the 0-based index of its last
\* occurrence, -1 when there is none
rfind(s, c) == RFindFrom(s, c, Len(s))

\* s[:-k]
DropLast(s, k) == SubSeq(s, 1, Len(s) - k)

GZ == <<".", "g", "z">>

\* os.fspath(filepath) + ".gz"
GzPath(filepath) == filepath \o GZ

\* os.path.join(dir, name): DirEntry.path
JoinPath(dir, name) == dir \o <<"/">> \o name

\* DirEntry.name: the part of a path after its last separator
EntryName(path) ==
    SubSeq(path, rfind(path, "/") + 2, Len(path))

\* the directory an entry is listed in
EntryDir(path) ==
    SubSeq(path, 1, rfind(path, "/"))

\* get_extension: the filename's extension with its leading period, if any
get_extension(filename) ==
    LET index == rfind(filename, ".")
    IN  IF 0 < index /\ index < Len(filename) - 1
        THEN SubSeq(filename, index + 1, Len(filename))
        ELSE <<>>

(***************************************************************************)
(* File contents.                                                          *)
(***************************************************************************)
Raw(b, n) == <<"raw", b, n>>
GzHeader == <<"hdr", 0, 0>>
GzEnd == <<"eos", 0, 0>>

\* the number of bytes a token stands for
TokenSize(tok) ==
    CASE tok[1] = "raw" -> tok[3]
      [] tok[1] = "hdr" -> 10
      [] tok[1] = "dfl" -> 3
      [] tok[1] = "eos" -> 1
      [] OTHER -> 8

RECURSIVE ContentSize(_)
ContentSize(content) ==
    IF content = <<>> THEN 0
    ELSE TokenSize(Head(content)) + ContentSize(Tail(content))

\* Byte strings are kept in normal form: no empty run, no two adjacent runs
\* of the same byte.  Append adds the run <<b, n>> to a byte string.
AppendRun(data, b, n) ==
    IF n = 0 THEN data
    ELSE IF data # <<>> /\ data[Len(data)][2] = b
         THEN SubSeq(data, 1, Len(data) - 1)
                  \o <<Raw(b, data[Len(data)][3] + n)>>
         ELSE Append(data, Raw(b, n))

(***************************************************************************)
(* Streaming checksums.  A digest is a polynomial hash of the bytes modulo *)
(* a prime, so that feeding a byte string in one block or in many gives    *)
(* the same digest; a run of n equal bytes is folded in closed form.       *)
(***************************************************************************)
\* <<P^n, 1 + P + ... + P^(n-1)>> modulo M
RECURSIVE PowSum(_, _, _)
PowSum(P, M, n) ==
    IF n = 0 THEN <<1, 0>>
    ELSE IF n % 2 = 0
         THEN LET h == PowSum(P, M, n \div 2)
              IN  <<(h[1] * h[1]) % M, (h[2] * (1 + h[1])) % M>>
         ELSE LET h == PowSum(P, M, n - 1)
              IN  <<(h[1] * P) % M, (h[2] * P + 1) % M>>

\* n times: h := (h * P + b + 1) mod M
PolyUpdate(P, M, h, b, n) ==
    LET ps == PowSum(P, M, n)
    IN  (h * ps[1] + (b + 1) * ps[2]) % M

\* the byte a token contributes when a file is read as plain bytes
TokenByte(tok) ==
    CASE tok[1] = "raw" -> tok[2]
      [] tok[1] = "hdr" -> 31
      [] tok[1] = "dfl" -> 64 + tok[2]
      [] tok[1] = "eos" -> 3
      [] OTHER -> 128 + (tok[2] % 128)

\* hasher.update(block) for a block of tokens
RECURSIVE HasherUpdate(_, _)
HasherUpdate(h, block) ==
    IF block = <<>> THEN h
    ELSE HasherUpdate(
             PolyUpdate(257, 32749, h, TokenByte(Head(block)),
                        TokenSize(Head(block))),
             Tail(block))

\* hash_algorithm(): a fresh hasher
NewHasher == 1

\* zlib.crc32 of a byte string
RECURSIVE Crc32(_, _)
Crc32(c, data) ==
    IF data = <<>> THEN c
    ELSE Crc32(PolyUpdate(263, 32719, c, Head(data)[2], Head(data)[3]),
               Tail(data))

(***************************************************************************)
(* The gzip format: gzip.open(..., "wb").write, zopfli's gzip.compress,    *)
(* zlib.decompressobj(wbits=31) and gzip.decompress.                       *)
(***************************************************************************)
\* the deflate coding of one block read from the input
Deflate(block) ==
    [i \in 1..Len(block) |->
        <<"dfl", TokenByte(block[i]), TokenSize(block[i])>>]

\* the bytes of a content as a byte string in normal form
RECURSIVE Bytes(_, _)
Bytes(acc, content) ==
    IF content = <<>> THEN acc
    ELSE Bytes(AppendRun(acc, TokenByte(Head(content)),
                         TokenSize(Head(content))),
               Tail(content))

GzTrailer(data) == <<"trl", Crc32(0, data), ContentSize(data)>>

\* a member whose output was never closed: no end of stream, no trailer
GzipMember_unclosed(content) == <<GzHeader>> \o Deflate(content)

\* one complete gzip member holding the bytes of content
GzipMember(content) ==
    <<GzHeader>> \o Deflate(content) \o <<GzEnd, GzTrailer(Bytes(<<>>, content))>>

\* zlib_decompressobj(wbits=31)
NewDecompressor == [mode |-> "head", crc |-> 0, size |-> 0]

\* the decompressor fed one token: its next state, the bytes it returns,
\* and whether it raises zlib.error.  After the end of the first member
\* everything goes to unused_data.
DecompressToken(d, tok) ==
    CASE d.mode = "head" ->
            IF tok = GzHeader
            THEN [d |-> [d EXCEPT !.mode = "body"], out |-> <<>>, err |-> FALSE]
            ELSE [d |-> d, out |-> <<>>, err |-> TRUE]
      [] d.mode = "body" ->
            IF tok[1] = "dfl"
            THEN [d |-> [d EXCEPT
                           !.crc = PolyUpdate(263, 32719, d.crc, tok[2], tok[3]),
                           !.size = d.size + tok[3]],
                  out |-> <<Raw(tok[2], tok[3])>>, err |-> FALSE]
            ELSE IF tok = GzEnd
            THEN [d |-> [d EXCEPT !.mode = "trailer"], out |-> <<>>, err |-> FALSE]
            ELSE [d |-> d, out |-> <<>>, err |-> TRUE]
      [] d.mode = "trailer" ->
            IF tok = <<"trl", d.crc, d.size>>
            THEN [d |-> [d EXCEPT !.mode = "eof"], out |-> <<>>, err |-> FALSE]
            ELSE [d |-> d, out |-> <<>>, err |-> TRUE]
      [] OTHER -> [d |-> d, out |-> <<>>, err |-> FALSE]

\* gzip.decompress(bytes): every member of the file, concatenated; an
\* error for anything that is not a sequence of complete members
RECURSIVE gzip_decompress(_, _)
gzip_decompress(acc, content) ==
    IF content = <<>> THEN [ok |-> TRUE, data |-> acc]
    ELSE
      LET ends == {i \in 1..Len(content) : content[i] = GzEnd}
          k == IF ends = {} THEN 0
               ELSE CHOOSE i \in ends : \A j \in ends : i <= j
      IN  IF /\ k >= 2
             /\ Len(content) >= k + 1
             /\ content[1] = GzHeader
             /\ \A i \in 2..(k - 1) : content[i][1] = "dfl"
          THEN LET data == Bytes(<<>>,
                     [i \in 1..(k - 2) |->
                         Raw(content[i + 1][2], content[i + 1][3])])
               IN  IF content[k + 1] = GzTrailer(data)
                   THEN gzip_decompress(
                            Bytes(acc, data),
                            SubSeq(content, k + 2, Len(content)))
                   ELSE [ok |-> FALSE, data |-> <<>>]
          ELSE [ok |-> FALSE, data |-> <<>>]

(***************************************************************************)
(* The file system: a function from the paths that exist to                *)
(* [kind, data, mode, atime, mtime].                                       *)
(***************************************************************************)
\* os.path.exists
exists(fs, path) == path \in DOMAIN fs

\* DirEntry.is_file / DirEntry.is_dir
is_file(fs, path) == fs[path].kind = "file"
is_dir(fs, path) == fs[path].kind = "dir"

\* the entries os.scandir(dir) can return
Listing(fs, dir) == {p \in DOMAIN fs : EntryDir(p) = dir}

\* the time of the clock during run r
WriteTime(r) == 100 + r

\* open(path, "wb") and the writes that follow: the file is created with
\* the default mode or truncated, and its modification time is now
WriteFile(fs, path, content, now) ==
    IF exists(fs, path)
    THEN [fs EXCEPT ![path].data = content, ![path].mtime = now]
    ELSE fs @@ (path :> [kind |-> "file", data |-> content, mode |-> 420,
                         atime |-> now, mtime |-> now])

\* os.utime(path, ns=(atime, mtime))
utime(fs, path, atime, mtime) ==
    [fs EXCEPT ![path].atime = atime, ![path].mtime = mtime]

\* os.chmod(path, mode)
chmod(fs, path, mode) == [fs EXCEPT ![path].mode = mode]

\* os.remove(path)
remove(fs, path) == [p \in DOMAIN fs \ {path} |-> fs[p]]

(***************************************************************************)
(* hash_file_contents, compress_path, compress_idempotent.                 *)
(***************************************************************************)
\* The read loop of hash_file_contents: one block per iteration, fed to the
\* decompressor when the path ends in '.gz', then to the hasher.  Hasher
\* and decompressor are streaming, so a block is taken to be one token.
RECURSIVE HashLoop(_, _, _, _)
HashLoop(content, is_gzip, decompressor, hasher) ==
    IF content = <<>> THEN [err |-> "", digest |-> hasher]
    ELSE IF is_gzip
         THEN LET r == DecompressToken(decompressor, Head(content))
              IN  IF r.err THEN [err |-> "zlib.error", digest |-> 0]
                  ELSE HashLoop(Tail(content), is_gzip, r.d,
                                HasherUpdate(hasher, r.out))
         ELSE HashLoop(Tail(content), is_gzip, decompressor,
                       HasherUpdate(hasher, <<Head(content)>>))

hash_file_contents(fs, filepath) ==
    LET is_gzip == endswith(filepath, GZ)
    IN  IF ~exists(fs, filepath) \/ ~is_file(fs, filepath)
        THEN [err |-> "OSError", digest |-> 0]
        ELSE HashLoop(fs[filepath].data, is_gzip, NewDecompressor, NewHasher)

\* zopfli_gzip is None
ZopfliMissing_fallback(zopfli_gzip) == FALSE

ZopfliMissing(zopfli_gzip) == ~zopfli_gzip

\* os.stat(filepath).st_size > ZOPFLI_MAXIMUM_SIZE
TooLargeForZopfli_inclusive(st_size) == st_size >= ZOPFLI_MAXIMUM_SIZE

TooLargeForZopfli(st_size) == st_size > ZOPFLI_MAXIMUM_SIZE

\* compress_path: the file system afterwards, the error raised ("" for
\* none), whether a warning was issued, and the backend that wrote the
\* output: <<"zopfli", 11>>, or "gzip" and the level given to gzip.open
compress_path(fs, filepath, compresslevel, zopfli_gzip, now) ==
    LET output_filepath == GzPath(filepath)
        written == WriteFile(fs, output_filepath,
                             GzipMember(fs[filepath].data), now)
        stream(level, warn) ==
            [fs |-> written, err |-> "", warn |-> warn,
             backend |-> <<"gzip", level>>]
    IN  IF compresslevel = 11
        THEN IF ZopfliMissing(zopfli_gzip)
             THEN [fs |-> fs, err |-> "ModuleNotFoundError",
                   warn |-> FALSE, backend |-> <<"none", 0>>]
             ELSE IF TooLargeForZopfli(ContentSize(fs[filepath].data))
                  THEN stream(9, TRUE)
                  ELSE [fs |-> written, err |-> "", warn |-> FALSE,
                        backend |-> <<"zopfli", 11>>]
        ELSE stream(compresslevel, FALSE)

\* the hashes are compared when a companion exists and force is not set
NeedsCompare_forced(had_gz, force) == had_gz

NeedsCompare_never(had_gz, force) == FALSE

NeedsCompare(had_gz, force) == had_gz /\ ~force

\* the mode is set from the file's, the times are left as the write set them
MirrorMetadata_mode_only(fs, filepath, gzipped_path) ==
    chmod(fs, gzipped_path, fs[filepath].mode)

\* the file system attributes of the gzipped file are set from the file's
MirrorMetadata(fs, filepath, gzipped_path) ==
    LET file_stat == fs[filepath]
    IN  chmod(utime(fs, gzipped_path, file_stat.atime, file_stat.mtime),
              gzipped_path, file_stat.mode)

\* compress_idempotent: the file system afterwards, the result returned,
\* the error raised ("" for none), the paths hashed, and what compress_path
\* reported
compress_idempotent(fs, filepath, compresslevel, force, zopfli_gzip, now) ==
    LET gzipped_path == GzPath(filepath)
        had_gz == exists(fs, gzipped_path)
        result == IF had_gz THEN RECOMPRESSED ELSE COMPRESSED
        compare == NeedsCompare(had_gz, force)
        file_hash == hash_file_contents(fs, filepath)
        gzipped_hash == hash_file_contents(fs, gzipped_path)
        hashed == IF ~compare THEN {}
                  ELSE IF file_hash.err # "" THEN {filepath}
                  ELSE {filepath, gzipped_path}
        quiet == [fs |-> fs, result |-> SKIPPED, err |-> "",
                  hashed |-> hashed, warn |-> FALSE, backend |-> <<"none", 0>>]
        c == compress_path(fs, filepath, compresslevel, zopfli_gzip, now)
    IN  IF compare /\ file_hash.err # ""
        THEN [quiet EXCEPT !.err = file_hash.err]
        ELSE IF compare /\ gzipped_hash.err # ""
        THEN [quiet EXCEPT !.err = gzipped_hash.err]
        ELSE IF compare /\ file_hash.digest = gzipped_hash.digest
        THEN quiet
        ELSE IF c.err # ""
        THEN [quiet EXCEPT !.err = c.err]
        ELSE [fs |-> MirrorMetadata(c.fs, filepath, gzipped_path),
              result |-> result, err |-> "", hashed |-> hashed,
              warn |-> c.warn, backend |-> c.backend]

(***************************************************************************)
(* get_extension applied by the two directory walks.                       *)
(***************************************************************************)
\* find_static_files without the check for names ending in '.gz'
find_static_files_entry_no_gz_check(fs, path, extensions) ==
    IF is_file(fs, path)
    THEN IF get_extension(EntryName(path)) \in extensions THEN "yield"
         ELSE "skip"
    ELSE IF is_dir(fs, path) THEN "recurse"
    ELSE "skip"

\* what find_static_files does with one directory entry
find_static_files_entry(fs, path, extensions) ==
    IF is_file(fs, path)
    THEN IF endswith(EntryName(path), GZ) THEN "skip"
         ELSE IF get_extension(EntryName(path)) \in extensions THEN "yield"
         ELSE "skip"
    ELSE IF is_dir(fs, path) THEN "recurse"
    ELSE "skip"

\* find_orphaned_files without the check of the parent's extension
find_orphaned_files_entry_any_extension(fs, path, extensions) ==
    LET parent_file == DropLast(path, 3)
    IN  IF is_file(fs, path)
        THEN IF /\ endswith(EntryName(path), GZ)
                /\ ~exists(fs, parent_file)
             THEN "yield"
             ELSE "skip"
        ELSE IF is_dir(fs, path) THEN "recurse"
        ELSE "skip"

\* what find_orphaned_files does with one directory entry
find_orphaned_files_entry(fs, path, extensions) ==
    LET parent_file == DropLast(path, 3)
    IN  IF is_file(fs, path)
        THEN IF /\ endswith(EntryName(path), GZ)
                /\ get_extension(parent_file) \in extensions
                /\ ~exists(fs, parent_file)
             THEN "yield"
             ELSE "skip"
        ELSE IF is_dir(fs, path) THEN "recurse"
        ELSE "skip"

(***************************************************************************)
(* The trees and arguments the runs start from.                            *)
(***************************************************************************)
HTML == <<".", "h", "t", "m", "l">>
JS == <<".", "j", "s">>
TAR == <<".", "t", "a", "r">>

ExtensionSets == {{HTML, JS}, {HTML, TAR, GZ}}

Root == <<"s", "i", "t", "e">>
SubDir == JoinPath(Root, <<"s", "u", "b">>)
IndexHtml == JoinPath(Root, <<"i", "n", "d", "e", "x">> \o HTML)
SomeJs == JoinPath(SubDir, <<"s", "o", "m", "e">> \o JS)
DataTarGz == JoinPath(Root, <<"d", "a", "t", "a">> \o TAR \o GZ)
DotHtmlGz == JoinPath(Root, HTML \o GZ)
IndexHtmlGzGz == GzPath(GzPath(IndexHtml))

DataA == <<Raw(0, 1)>>
DataB == <<Raw(1, 1)>>

\* a source file, and a '.gz' file left by an earlier run
SourceFile(data) ==
    [kind |-> "file", data |-> data, mode |-> 416, atime |-> 5, mtime |-> 3]
OldFile(data) ==
    [kind |-> "file", data |-> data, mode |-> 420, atime |-> 2, mtime |-> 1]
Directory ==
    [kind |-> "dir", data |-> <<>>, mode |-> 493, atime |-> 0, mtime |-> 0]

\* the contents a companion of a file holding DataA can have: up to date,
\* stale, a second member after the first, cut off before the trailer, and
\* not gzip at all
CompanionContents ==
    { GzipMember(DataA),
      GzipMember(DataB),
      GzipMember(DataA) \o GzipMember(DataB),
      DropLast(GzipMember(DataA), 1),
      DataB }

\* the files a tree can hold, each with the states it can be in; sizes are
\* the sizes index.html can have
Slots ==
    {IndexHtml, GzPath(IndexHtml), SomeJs, GzPath(SomeJs), DataTarGz,
     DotHtmlGz, IndexHtmlGzGz}

Options(path, sizes) ==
    CASE path = IndexHtml -> {SourceFile(<<Raw(0, n)>>) : n \in sizes}
      [] path = GzPath(IndexHtml) -> {OldFile(c) : c \in CompanionContents}
      [] path = SomeJs -> {SourceFile(DataA)}
      [] path = GzPath(SomeJs) -> {OldFile(GzipMember(DataB))}
      [] OTHER -> {OldFile(GzipMember(DataA))}

\* the directories of a tree holding the files S
DirsOf(S) ==
    (Root :> Directory) @@
    [d \in {EntryDir(p) : p \in S} \ {Root} |-> Directory]

RECURSIVE FilesOver(_, _)
FilesOver(S, sizes) ==
    IF S = {} THEN {<<>>}
    ELSE LET p == CHOOSE q \in S : TRUE
         IN  {f @@ (p :> r) :
                 f \in FilesOver(S \ {p}, sizes), r \in Options(p, sizes)}

Trees(sizes) ==
    UNION {{DirsOf(S) @@ f : f \in FilesOver(S, sizes)} :
              S \in {T \in SUBSET Slots : Cardinality(T) <= MaxFiles}}

(***************************************************************************)
(* The state: the file system, the arguments of gzip_static, and the       *)
(* position of the running call.  start, yielded, outcome, hashed, warned, *)
(* written, removed and prev record what the current and the previous run  *)
(* did.                                                                    *)
(***************************************************************************)
VARIABLES
    fs,          \* the directory tree
    args,        \* extensions, compresslevel, force, remove_orphans
    zopfli_gzip, \* TRUE when the zopfli module was imported
    pc,          \* "ready", "compress", "orphans", "returned", "raised"
    stack,       \* the os.scandir iterators of the nested generators
    results,     \* the list results of gzip_static
    run,         \* the number of runs started
    start,       \* the file system when the current run started
    yielded,     \* path -> how often find_static_files yielded it
    outcome,     \* path -> what compress_idempotent returned for it
    hashed,      \* the paths given to hash_file_contents
    warned,      \* the paths compress_path warned about
    written,     \* output path -> the backend that wrote it
    removed,     \* the paths given to os.remove
    error,       \* the exception the run raised, "" for none
    prev         \* how the previous run ended

vars == <<fs, args, zopfli_gzip, pc, stack, results, run, start, yielded,
          outcome, hashed, warned, written, removed, error, prev>>

env == <<args, zopfli_gzip>>
history == <<yielded, outcome, hashed, warned, written, removed>>

NoFunction == [x \in {} |-> 0]

Init ==
    /\ args \in [extensions : ExtensionSets,
                 compresslevel : AVAILABLE_COMPRESSION_LEVELS,
                 force : BOOLEAN,
                 remove_orphans : BOOLEAN]
    \* zopfli_gzip and ZOPFLI_MAXIMUM_SIZE are read at level 11 only, and
    \* the size only when zopfli was imported
    /\ zopfli_gzip \in IF args.compresslevel = 11 THEN BOOLEAN ELSE {FALSE}
    /\ fs \in Trees(IF zopfli_gzip
                    THEN {1, ZOPFLI_MAXIMUM_SIZE, ZOPFLI_MAXIMUM_SIZE + 1}
                    ELSE {1})
    /\ pc = "ready"
    /\ stack = <<>>
    /\ results = <<0, 0, 0, 0>>
    /\ run = 0
    /\ start = fs
    /\ yielded = NoFunction
    /\ outcome = NoFunction
    /\ hashed = {}
    /\ warned = {}
    /\ written = NoFunction
    /\ removed = {}
    /\ error = ""
    /\ prev = [pc |-> "none", results |-> <<0, 0, 0, 0>>]

\* os.scandir(dir): an iterator over the entries of dir.  snap is what the
\* directory held when it was opened, seen what the iterator has returned.
\* An entry created after the directory was opened may or may not be
\* returned.
scandir(dir) == [dir |-> dir, snap |-> Listing(fs, dir), seen |-> {}]

Top == stack[Len(stack)]

\* the entries the iterator can return next
Candidates == Listing(fs, Top.dir) \ Top.seen

\* the iterator may stop once these have been returned
Pending == (Top.snap \cap Listing(fs, Top.dir)) \ Top.seen

Advance(entry) ==
    [stack EXCEPT ![Len(stack)].seen = Top.seen \cup {entry}]

\* results[result] = 1
Count_set(result) == [results EXCEPT ![result + 1] = 1]

\* results[result] += 1
Count(result) == [results EXCEPT ![result + 1] = results[result + 1] + 1]

(***************************************************************************)
(* gzip_static.                                                            *)
(***************************************************************************)
\* A call of gzip_static(dir, ...) begins: results = [0, 0, 0, 0] and the
\* first generator is created.
Call ==
    /\ pc \in {"ready", "returned", "raised"}
    /\ run < MaxRuns
    /\ pc' = "compress"
    /\ run' = run + 1
    /\ results' = <<0, 0, 0, 0>>
    /\ stack' = <<scandir(Root)>>
    /\ start' = fs
    /\ prev' = [pc |-> pc, results |-> results]
    /\ yielded' = NoFunction
    /\ outcome' = NoFunction
    /\ hashed' = {}
    /\ warned' = {}
    /\ written' = NoFunction
    /\ removed' = {}
    /\ error' = ""
    /\ UNCHANGED <<fs, env>>

\* find_static_files passes over an entry it does not yield
StaticSkip ==
    /\ pc = "compress"
    /\ \E entry \in Candidates :
         /\ find_static_files_entry(fs, entry, args.extensions) = "skip"
         /\ stack' = Advance(entry)
    /\ UNCHANGED <<fs, env, pc, results, run, start, history, error, prev>>

\* find_static_files recurses into a directory
StaticRecurse ==
    /\ pc = "compress"
    /\ \E entry \in Candidates :
         /\ find_static_files_entry(fs, entry, args.extensions) = "recurse"
         /\ stack' = Append(Advance(entry), scandir(entry))
    /\ UNCHANGED <<fs, env, pc, results, run, start, history, error, prev>>

\* find_static_files yields a static file and the loop body of gzip_static
\* runs compress_idempotent on it
Compress ==
    /\ pc = "compress"
    /\ \E static_file \in Candidates :
         /\ find_static_files_entry(fs, static_file, args.extensions) = "yield"
         /\ LET r == compress_idempotent(fs, static_file, args.compresslevel,
                                         args.force, zopfli_gzip,
                                         WriteTime(run))
                out == GzPath(static_file)
            IN  /\ stack' = Advance(static_file)
                /\ yielded' = (static_file :>
                                 (IF static_file \in DOMAIN yielded
                                  THEN yielded[static_file] + 1 ELSE 1))
                              @@ yielded
                /\ hashed' = hashed \cup r.hashed
                /\ IF r.err # ""
                   THEN /\ pc' = "raised"
                        /\ error' = r.err
                        /\ UNCHANGED <<fs, results, outcome, warned, written>>
                   ELSE /\ fs' = r.fs
                        /\ results' = Count(r.result)
                        /\ outcome' = (static_file :> r.result) @@ outcome
                        /\ warned' = IF r.warn THEN warned \cup {static_file}
                                     ELSE warned
                        /\ written' = IF r.result = SKIPPED THEN written
                                      ELSE (out :> r.backend) @@ written
                        /\ UNCHANGED <<pc, error>>
    /\ UNCHANGED <<env, run, start, removed, prev>>

\* a generator of find_static_files is exhausted; when it is the outermost
\* one the loop of gzip_static ends
StaticReturn ==
    /\ pc = "compress"
    /\ Pending = {}
    /\ IF Len(stack) > 1
       THEN /\ stack' = DropLast(stack, 1)
            /\ pc' = pc
       ELSE IF args.remove_orphans
       THEN /\ stack' = <<scandir(Root)>>
            /\ pc' = "orphans"
       ELSE /\ stack' = <<>>
            /\ pc' = "returned"
    /\ UNCHANGED <<fs, env, results, run, start, history, error, prev>>

\* find_orphaned_files passes over an entry it does not yield
OrphanSkip ==
    /\ pc = "orphans"
    /\ \E entry \in Candidates :
         /\ find_orphaned_files_entry(fs, entry, args.extensions) = "skip"
         /\ stack' = Advance(entry)
    /\ UNCHANGED <<fs, env, pc, results, run, start, history, error, prev>>

\* find_orphaned_files recurses into a directory
OrphanRecurse ==
    /\ pc = "orphans"
    /\ \E entry \in Candidates :
         /\ find_orphaned_files_entry(fs, entry, args.extensions) = "recurse"
         /\ stack' = Append(Advance(entry), scandir(entry))
    /\ UNCHANGED <<fs, env, pc, results, run, start, history, error, prev>>

\* find_orphaned_files yields an orphan and the loop body of gzip_static
\* removes it
RemoveOrphan ==
    /\ pc = "orphans"
    /\ \E orphaned_file \in Candidates :
         /\ find_orphaned_files_entry(fs, orphaned_file, args.extensions)
                = "yield"
         /\ stack' = Advance(orphaned_file)
         /\ fs' = remove(fs, orphaned_file)
         /\ results' = Count(DELETED)
         /\ removed' = removed \cup {orphaned_file}
    /\ UNCHANGED <<env, pc, run, start, yielded, outcome, hashed, warned,
                   written, error, prev>>

\* a generator of find_orphaned_files is exhausted; when it is the
\* outermost one gzip_static returns GzipStaticResult(*results)
OrphanReturn ==
    /\ pc = "orphans"
    /\ Pending = {}
    /\ IF Len(stack) > 1
       THEN /\ stack' = DropLast(stack, 1)
            /\ pc' = pc
       ELSE /\ stack' = <<>>
            /\ pc' = "returned"
    /\ UNCHANGED <<fs, env, results, run, start, history, error, prev>>

Next ==
    \/ Call
    \/ StaticSkip
    \/ StaticRecurse
    \/ Compress
    \/ StaticReturn
    \/ OrphanSkip
    \/ OrphanRecurse
    \/ RemoveOrphan
    \/ OrphanReturn

Spec == Init /\ [][Next]_vars

(***************************************************************************)
(* What the specification says of a tree, stated without the code's        *)
(* helpers.                                                                *)
(***************************************************************************)
\* x is an extension: a dot followed by one or more characters, none a dot
IsExtension(x) ==
    /\ Len(x) >= 2
    /\ x[1] = "."
    /\ \A i \in 2..Len(x) : x[i] # "."

\* the name has an extension of the set: it ends in one, after a stem
HasTrackedExtension(name, extensions) ==
    \E x \in extensions :
        /\ IsExtension(x)
        /\ Len(name) > Len(x)
        /\ endswith(name, x)

\* path is an eligible static file of the tree
Eligible(tree, path, extensions) ==
    /\ path \in DOMAIN tree
    /\ tree[path].kind = "file"
    /\ ~endswith(EntryName(path), GZ)
    /\ HasTrackedExtension(EntryName(path), extensions)

EligibleFiles(tree, extensions) ==
    {p \in DOMAIN tree : Eligible(tree, p, extensions)}

\* the file at path is a gzip file that decompresses to exactly data
DecompressesTo(tree, path, data) ==
    /\ path \in DOMAIN tree
    /\ gzip_decompress(<<>>, tree[path].data)
           = [ok |-> TRUE, data |-> Bytes(<<>>, data)]

\* the eligible files that had no companion when the run started
Uncompanioned ==
    {f \in EligibleFiles(start, args.extensions) : GzPath(f) \notin DOMAIN start}

(***************************************************************************)
(* C1.  Every eligible static file that has no companion before a run has  *)
(* one after the run returns; the companion decompresses to exactly the    *)
(* file's bytes, and the file is counted once in 'created'.                *)
(***************************************************************************)
C1_CompanionCreated ==
    pc = "returned" =>
        /\ \A f \in Uncompanioned :
              /\ DecompressesTo(fs, GzPath(f), start[f].data)
              /\ f \in DOMAIN fs /\ fs[f] = start[f]
              /\ f \in DOMAIN outcome /\ outcome[f] = COMPRESSED
              /\ yielded[f] = 1
        /\ results[COMPRESSED + 1] = Cardinality(Uncompanioned)

C1_Witness ==
    /\ pc = "returned"
    /\ Cardinality(Uncompanioned) >= 2
    /\ \A f \in Uncompanioned : f \in DOMAIN outcome /\ outcome[f] = COMPRESSED

(***************************************************************************)
(* C2.  Idempotence: when a first run with force=false has returned, a     *)
(* second run with the same arguments on the unchanged tree returns        *)
(* skipped = the number of eligible static files and created = updated =   *)
(* deleted = 0, and changes no file.                                       *)
(***************************************************************************)
SecondRunReturned ==
    /\ pc = "returned"
    /\ prev.pc = "returned"
    /\ ~args.force

NothingToDo ==
    /\ results = <<0, 0, Cardinality(EligibleFiles(start, args.extensions)), 0>>
    /\ fs = start

Companioned ==
    {f \in EligibleFiles(start, args.extensions) : GzPath(f) \in DOMAIN start}

C3_HashChangeDetection ==
    (pc = "returned" /\ ~args.force) =>
        \A f \in Companioned :
            /\ f \in DOMAIN outcome
            /\ IF DecompressesTo(start, GzPath(f), start[f].data)
               THEN /\ outcome[f] = SKIPPED
                    /\ GzPath(f) \notin DOMAIN written
                    /\ fs[GzPath(f)] = start[GzPath(f)]
               ELSE /\ outcome[f] = RECOMPRESSED
                    /\ DecompressesTo(fs, GzPath(f), start[f].data)

(***************************************************************************)
(* C4.  With force=true no hash is computed, no file is skipped, and every *)
(* eligible file is compressed: one that had a companion ends RECOMPRESSED *)
(* with the companion rewritten, also when it matched the source.          *)
(***************************************************************************)
C4_ForceRecompresses ==
    args.force =>
        /\ hashed = {}
        /\ results[SKIPPED + 1] = 0
        /\ \A f \in DOMAIN outcome :
              /\ outcome[f] = IF GzPath(f) \in DOMAIN start
                              THEN RECOMPRESSED ELSE COMPRESSED
              /\ GzPath(f) \in DOMAIN written
              /\ fs[GzPath(f)].mtime = start[f].mtime
        /\ pc = "returned" =>
              DOMAIN outcome = EligibleFiles(start, args.extensions)

C4_Witness ==
    /\ args.force
    /\ pc = "returned"
    /\ \E f \in Companioned :
          /\ DecompressesTo(start, GzPath(f), start[f].data)
          /\ outcome[f] = RECOMPRESSED
          /\ fs[GzPath(f)] # start[GzPath(f)]

(***************************************************************************)
(* C5.  Whenever compress_idempotent returns SKIPPED for a file, its       *)
(* companion, as a whole gzip file, decompresses to exactly the bytes of   *)
(* the file.                                                               *)
(***************************************************************************)
C5_SkippedIsUpToDate ==
    \A f \in DOMAIN outcome :
        outcome[f] = SKIPPED => DecompressesTo(fs, GzPath(f), fs[f].data)

(***************************************************************************)
(* C6.  With remove_orphans the second pass deletes exactly the '.gz'      *)
(* files whose name without '.gz' has an extension of the set and whose    *)
(* path without '.gz' does not exist, and counts them in 'deleted'; it     *)
(* never deletes a companion whose source exists.  Without remove_orphans  *)
(* nothing is deleted.                                                     *)
(***************************************************************************)
Orphans(tree, extensions) ==
    {p \in DOMAIN tree :
        /\ tree[p].kind = "file"
        /\ endswith(EntryName(p), GZ)
        /\ HasTrackedExtension(DropLast(EntryName(p), 3), extensions)
        /\ DropLast(p, 3) \notin DOMAIN tree}

C6_OrphanRemoval ==
    pc = "returned" =>
        IF args.remove_orphans
        THEN /\ removed = Orphans(start, args.extensions)
             /\ DOMAIN fs = (DOMAIN start \ removed) \cup DOMAIN written
             /\ results[DELETED + 1] = Cardinality(removed)
             /\ \A p \in removed : DropLast(p, 3) \notin DOMAIN fs
        ELSE /\ removed = {}
             /\ DOMAIN start \subseteq DOMAIN fs
             /\ results[DELETED + 1] = 0

(***************************************************************************)
(* C7.  data.tar.gz, with no sibling data.tar, is never reported as an     *)
(* orphan and never deleted, whether or not '.tar' is in the extension     *)
(* set.                                                                    *)
(***************************************************************************)
ArchiveKept ==
    DataTarGz \in DOMAIN start =>
        /\ DataTarGz \notin removed
        /\ DataTarGz \in DOMAIN fs

C7_ArchiveNeverOrphan_Original == ArchiveKept

\* as amended: when '.tar' is not in the extension set
C7_ArchiveNeverOrphan == TAR \notin args.extensions => ArchiveKept

C7_Witness ==
    /\ pc = "returned"
    /\ args.remove_orphans
    /\ TAR \notin args.extensions
    /\ DataTarGz \in DOMAIN start
    /\ DataTarGz \in DOMAIN fs
    /\ removed # {}

(***************************************************************************)
(* C8.  find_static_files yields exactly the regular files under the root  *)
(* whose name does not end in '.gz' and whose extension is in the set,     *)
(* each once; never a file whose name ends in '.gz', never a directory.    *)
(***************************************************************************)
C8_StaticFilesFound ==
    /\ \A f \in DOMAIN yielded :
          /\ yielded[f] = 1
          /\ Eligible(start, f, args.extensions)
    /\ pc \in {"orphans", "returned"} =>
          DOMAIN yielded = EligibleFiles(start, args.extensions)

C8_Witness ==
    /\ pc \in {"orphans", "returned"}
    /\ {TAR, GZ} \subseteq args.extensions
    /\ {IndexHtml, SomeJs, DataTarGz} \subseteq DOMAIN start
    /\ DOMAIN yielded = {IndexHtml}

(***************************************************************************)
(* C9.  With compresslevel=11 and zopfli missing every run raises          *)
(* ModuleNotFoundError instead of returning, and nothing is written.       *)
(***************************************************************************)
NoZopfli == args.compresslevel = 11 /\ ~zopfli_gzip

NothingWritten ==
    /\ DOMAIN written = {}
    /\ \A p \in DOMAIN fs : p \in DOMAIN start /\ fs[p] = start[p]

C9_ZopfliMissingIsFatal_Original ==
    NoZopfli => (pc # "returned" /\ NothingWritten)

\* as amended: the run raises at the first eligible file that has to be
\* compressed, and returns only when there is none
C9_ZopfliMissingIsFatal ==
    NoZopfli =>
        /\ NothingWritten
        /\ \A f \in DOMAIN outcome : outcome[f] = SKIPPED
        /\ pc \in {"orphans", "returned"} =>
              /\ DOMAIN outcome = EligibleFiles(start, args.extensions)
              /\ Uncompanioned = {}
              /\ args.force => Companioned = {}
        /\ (pc = "raised" /\ hashed = {}) => error = "ModuleNotFoundError"

C9_Witness ==
    /\ NoZopfli
    /\ pc = "raised"
    /\ error = "ModuleNotFoundError"
    /\ \E f \in DOMAIN outcome : outcome[f] = SKIPPED
    /\ \E f \in Uncompanioned : f \in DOMAIN yielded

(***************************************************************************)
(* C10.  At level 11 with zopfli available, zopfli compresses a file only  *)
(* when its size is below ZOPFLI_MAXIMUM_SIZE; a file above it is          *)
(* compressed by gzip at level 9 with a warning, its companion             *)
(* decompresses to the source, and nothing is raised.                      *)
(***************************************************************************)
WithZopfli == args.compresslevel = 11 /\ zopfli_gzip

\* the files compress_path compressed in this run
Compressed == {f \in DOMAIN outcome : outcome[f] # SKIPPED}

Fallback(f) ==
    /\ written[GzPath(f)] = <<"gzip", 9>>
    /\ f \in warned
    /\ DecompressesTo(fs, GzPath(f), fs[f].data)

C10_ZopfliCeiling_Original ==
    WithZopfli =>
        /\ error # "ModuleNotFoundError"
        /\ \A f \in Compressed :
              /\ written[GzPath(f)] = <<"zopfli", 11>> =>
                     ContentSize(fs[f].data) < ZOPFLI_MAXIMUM_SIZE
              /\ ContentSize(fs[f].data) > ZOPFLI_MAXIMUM_SIZE => Fallback(f)

\* as amended: zopfli compresses a file whose size is at most the ceiling
C10_ZopfliCeiling ==
    WithZopfli =>
        /\ error # "ModuleNotFoundError"
        /\ \A f \in Compressed :
              IF ContentSize(fs[f].data) <= ZOPFLI_MAXIMUM_SIZE
              THEN written[GzPath(f)] = <<"zopfli", 11>> /\ f \notin warned
              ELSE Fallback(f)

C10_Witness ==
    /\ WithZopfli
    /\ pc = "returned"
    /\ \E f \in Compressed :
          /\ ContentSize(fs[f].data) = ZOPFLI_MAXIMUM_SIZE + 1
          /\ Fallback(f)
    /\ \E f \in Compressed : written[GzPath(f)] = <<"zopfli", 11>>

(***************************************************************************)
(* C11.  With force=false, a companion that is not a valid gzip file       *)
(* (corrupt or truncated) makes the run raise when its file is reached:    *)
(* compress_idempotent returns nothing for the file, neither SKIPPED nor   *)
(* RECOMPRESSED, and the companion is not overwritten.                     *)
(***************************************************************************)
\* the file at path is a sequence of complete gzip members
ValidGzip(tree, path) == gzip_decompress(<<>>, tree[path].data).ok

\* the files reached in this run whose companion was not a valid gzip file
ReachedInvalid ==
    {f \in Companioned :
        f \in DOMAIN yielded /\ ~ValidGzip(start, GzPath(f))}

C11_InvalidCompanionIsFatal ==
    ~args.force =>
        \A f \in ReachedInvalid :
            /\ pc = "raised"
            /\ error # ""
            /\ f \notin DOMAIN outcome
            /\ fs[GzPath(f)] = start[GzPath(f)]

(***************************************************************************)
(* C12.  After compress_idempotent returned COMPRESSED or RECOMPRESSED for *)
(* a file, with either backend, the companion has the mode, the access     *)
(* time and the modification time of the file; they are set after the      *)
(* content is written, so the companion holds the new content and not the  *)
(* time of the write.                                                      *)
(***************************************************************************)
SameMetadata(a, b) ==
    /\ a.mode = b.mode
    /\ a.atime = b.atime
    /\ a.mtime = b.mtime

C12_MetadataMirrored ==
    \A f \in Compressed :
        /\ SameMetadata(fs[GzPath(f)], fs[f])
        /\ fs[GzPath(f)].mtime # WriteTime(run)
        /\ DecompressesTo(fs, GzPath(f), fs[f].data)

C12_Witness ==
    /\ pc = "returned"
    /\ \E f \in Compressed :
          /\ outcome[f] = RECOMPRESSED
          /\ written[GzPath(f)] = <<"gzip", 9>>
          /\ ~SameMetadata(start[GzPath(f)], start[f])
    /\ \E f \in Compressed :
          /\ outcome[f] = COMPRESSED
          /\ written[GzPath(f)] = <<"zopfli", 11>>

(***************************************************************************)
(* C13.  The frame of a run: the files created or written are the          *)
(* companions F.gz, in F's directory, of the eligible files F that were    *)
(* compressed, one for each; the files removed are orphaned '.gz' files,   *)
(* and only with remove_orphans; every other file, every source file and   *)
(* every directory is as it was when the run started.                      *)
(***************************************************************************)
\* the paths that did not exist when the run started, or whose file differs
Touched ==
    {p \in DOMAIN fs : p \notin DOMAIN start \/ fs[p] # start[p]}

\* the paths that existed when the run started and no longer do
Gone == DOMAIN start \ DOMAIN fs

\* p was a '.gz' file named after a file with an extension of the set, and
\* that file does not exist
RemovedAsOrphan(p) ==
    /\ start[p].kind = "file"
    /\ endswith(EntryName(p), GZ)
    /\ HasTrackedExtension(DropLast(EntryName(p), 3), args.extensions)
    /\ DropLast(p, 3) \notin DOMAIN fs

C13_FilesystemFrame ==
    /\ Compressed \subseteq EligibleFiles(start, args.extensions)
    /\ Touched \subseteq {GzPath(f) : f \in Compressed}
    /\ DOMAIN written = {GzPath(f) : f \in Compressed}
    /\ \A f \in Compressed :
          /\ GzPath(f) \in DOMAIN fs
          /\ fs[GzPath(f)].kind = "file"
          /\ EntryDir(GzPath(f)) = EntryDir(f)
    /\ Gone = removed
    /\ \A p \in Gone : RemovedAsOrphan(p)
    /\ ~args.remove_orphans => Gone = {}
    /\ \A f \in EligibleFiles(start, args.extensions) :
          f \in DOMAIN fs /\ fs[f] = start[f]

(***************************************************************************)
(* C14.  In a run that returns, created + updated + skipped is the number  *)
(* of eligible static files present when the run started: each is          *)
(* processed exactly once and a companion written during the walk is never *)
(* yielded.  'deleted' is changed by the orphan pass only, which starts    *)
(* when the compress pass has finished.                                    *)
(***************************************************************************)
Processed ==
    results[COMPRESSED + 1] + results[RECOMPRESSED + 1] + results[SKIPPED + 1]

CompressPassFinished ==
    /\ DOMAIN outcome = EligibleFiles(start, args.extensions)
    /\ Processed = Cardinality(EligibleFiles(start, args.extensions))

C14_CounterConservation ==
    /\ Processed = Cardinality(DOMAIN outcome)
    /\ \A r \in {COMPRESSED, RECOMPRESSED, SKIPPED} :
          results[r + 1] = Cardinality({f \in DOMAIN outcome : outcome[f] = r})
    /\ \A f \in DOMAIN yielded : yielded[f] = 1 /\ f \in DOMAIN start
    /\ DOMAIN yielded \cap DOMAIN written = {}
    /\ results[DELETED + 1] = Cardinality(removed)
    /\ pc \in {"compress", "raised"} => results[DELETED + 1] = 0
    /\ pc \in {"orphans", "returned"} => CompressPassFinished

C14_Witness ==
    /\ pc = "returned"
    /\ Cardinality(EligibleFiles(start, args.extensions)) = 2
    /\ results[COMPRESSED + 1] >= 1
    /\ results[DELETED + 1] >= 1

(***************************************************************************)
(* C15.  The orphan pass reports and removes a '.gz' file only if a        *)
(* regular file at the path without '.gz' would be yielded by              *)
(* find_static_files with the same extension set; a file named '.html.gz'  *)
(* with no sibling '.html' is not removed when '.html' is tracked.         *)
(***************************************************************************)
\* find_static_files would yield a regular file at path
WouldBeYielded(path, extensions) ==
    find_static_files_entry(path :> SourceFile(DataA), path, extensions)
        = "yield"

C15_WalksAgree ==
    /\ \A p \in removed : WouldBeYielded(DropLast(p, 3), args.extensions)
    /\ (HTML \in args.extensions /\ DotHtmlGz \in DOMAIN start) =>
          DotHtmlGz \in DOMAIN fs
====
